---- MODULE Spec2Model ----
(***************************************************************************)
(* Model of the AI-defense coordinator (src/ai-defense/defense_coordinator *)
(* .py) and of the monitoring loop that drives it (src/ai-defense/main.py).*)
(*                                                                         *)
(* Time is counted in minutes (an integer clock `now`), confidences in     *)
(* hundredths (0.7 is 70).  Strings whose characters the code inspects     *)
(* (the alert "type") are sequences of one-character strings.              *)
(***************************************************************************)
EXTENDS Integers, Sequences, FiniteSets, TLC

VARIABLES
    now,                  \* datetime.utcnow(), in minutes
    defense_active,       \* AIDefenseContainer.defense_active
    phase,                \* position of the monitoring loop
    alerts,               \* DefenseCoordinator.alerts
    defense_history,      \* DefenseCoordinator.defense_history
    coordination_config,  \* DefenseCoordinator.coordination_config
    new_alerts,           \* _process_alerts: the local new_alerts of the last call
    filtered_alerts,      \* _process_alerts: the local filtered_alerts of the last call
    response_plans,       \* _coordinate_responses: the response_actions of each alert
    response_log,         \* response records built by _execute_response_action in the last call
    cycles,               \* number of monitoring cycles run so far
    delivered,            \* number of findings the detectors have handed over so far
    error_log,            \* what the last _process_alerts call wrote with logger.error
    api_call,             \* the last request served by the API and what it returned
    loop_tasks            \* position of every _start_defense_loop task started so far

vars == <<now, defense_active, phase, alerts, defense_history, coordination_config,
          new_alerts, filtered_alerts, response_plans, response_log, cycles, delivered,
          error_log, api_call, loop_tasks>>

----------------------------------------------------------------------------
(* Bounds of the model *)

MaxCycles == 2
MaxFindings == 2
MaxHistoryCycles == 102
MaxFill == 10
MaxLoops == 2

----------------------------------------------------------------------------
(* Program constants *)

HistoryCap == 100
DedupWindow == 10
DedupMinutes == 5
RateWindowMinutes == 60
RetentionMinutes == 1440
MinutesPerHour == 60
DefaultHistoryHours == 24
HighConfidence == 90
MediumConfidence == 70
DefaultMonitoringInterval == 30
DefaultAlertThreshold == 70
DefaultMaxAlertsPerHour == 10

----------------------------------------------------------------------------
(* Strings and dictionaries *)

\* dict.get(key, default)
Get(d, key, default) == IF key \in DOMAIN d THEN d[key] ELSE default

LowerChar(c) ==
    CASE c = "A" -> "a" [] c = "B" -> "b" [] c = "C" -> "c" [] c = "D" -> "d"
      [] c = "E" -> "e" [] c = "F" -> "f" [] c = "G" -> "g" [] c = "H" -> "h"
      [] c = "I" -> "i" [] c = "J" -> "j" [] c = "K" -> "k" [] c = "L" -> "l"
      [] c = "M" -> "m" [] c = "N" -> "n" [] c = "O" -> "o" [] c = "P" -> "p"
      [] c = "Q" -> "q" [] c = "R" -> "r" [] c = "S" -> "s" [] c = "T" -> "t"
      [] c = "U" -> "u" [] c = "V" -> "v" [] c = "W" -> "w" [] c = "X" -> "x"
      [] c = "Y" -> "y" [] c = "Z" -> "z" [] OTHER -> c

\* str.lower()
Lower(s) == [i \in 1..Len(s) |-> LowerChar(s[i])]

\* sub in s
Contains(sub, s) ==
    \E i \in 1..(Len(s) - Len(sub) + 1) : SubSeq(s, i, i + Len(sub) - 1) = sub

STR_anomaly == <<"a","n","o","m","a","l","y">>
STR_threat == <<"t","h","r","e","a","t">>
STR_performance == <<"p","e","r","f","o","r","m","a","n","c","e">>

----------------------------------------------------------------------------
(* The detectors (external collaborators) and what they hand over *)

\* self.defense_systems, in insertion order
SystemNames == <<"anomaly_detector", "threat_analyzer", "neural_monitor">>

KIND_threat_x == "threat_x"
KIND_anomaly_detected == "anomaly_detected"
KIND_threat_performance_x == "threat_performance_x"
KIND_threat_anomaly == "threat_anomaly"
KIND_Threat_X == "Threat_X"
KIND_PERFORMANCE_drop == "PERFORMANCE_drop"
KIND_brute_force_attempt == "brute_force_attempt"

\* The characters of the alert types of the model
Chars(s) ==
    CASE s = KIND_threat_x -> <<"t","h","r","e","a","t","_","x">>
      [] s = KIND_anomaly_detected ->
            <<"a","n","o","m","a","l","y","_","d","e","t","e","c","t","e","d">>
      [] s = KIND_threat_performance_x ->
            <<"t","h","r","e","a","t","_","p","e","r","f","o","r","m","a","n","c","e","_","x">>
      [] s = KIND_threat_anomaly ->
            <<"t","h","r","e","a","t","_","a","n","o","m","a","l","y">>
      [] s = KIND_Threat_X -> <<"T","h","r","e","a","t","_","X">>
      [] s = KIND_PERFORMANCE_drop ->
            <<"P","E","R","F","O","R","M","A","N","C","E","_","d","r","o","p">>
      [] s = KIND_brute_force_attempt ->
            <<"b","r","u","t","e","_","f","o","r","c","e","_","a","t","t","e","m","p","t">>
      [] OTHER -> <<>>

\* how long before `now` a reported finding was detected (minutes)
Offsets == {0, 4, 60}

\* how long the loop may take from one cycle to the next (minutes)
Steps == {4, 6, 1440}

\* A finding as a detector builds it: id, type, confidence, timestamp.  The id is
\* made of the detection time, as the detectors do.
Finding(kind, conf, ts) ==
    [id |-> <<kind, ts>>, type |-> kind, confidence |-> conf, timestamp |-> ts]

\* A finding without a confidence (the threat analyzer's findings carry none).
FindingNoConfidence(kind, ts) ==
    [id |-> <<kind, ts>>, type |-> kind, timestamp |-> ts]

\* What each system of the model may answer to get_alerts() at time t (the neural
\* monitor answers no alert query)
Findings(system, t) ==
    CASE system = "anomaly_detector" ->
            {Finding(KIND_anomaly_detected, 95, t - o) : o \in Offsets}
            \cup {Finding(KIND_threat_x, 80, t - o) : o \in Offsets}
      [] system = "threat_analyzer" ->
            {Finding(KIND_threat_x, 95, t - o) : o \in Offsets}
            \cup {FindingNoConfidence(KIND_threat_x, t)}
      [] OTHER -> {}

\* The sequences of at most n findings of one system
Batches(system, t, n) == UNION {[1..k -> Findings(system, t)] : k \in 0..n}

\* Tag(batch, system): the findings of one system, each with the system's name
Tag(batch, system) == [i \in 1..Len(batch) |-> [system |-> system, alert |-> batch[i]]]

\* One answer of the detectors to get_alerts(): at most n findings in all, as a
\* sequence of [system, alert] in the order the coordinator visits the systems.
Reports(t, n) ==
    {Tag(p[1], SystemNames[1]) \o Tag(p[2], SystemNames[2]) \o Tag(p[3], SystemNames[3]) :
        p \in {q \in Batches(SystemNames[1], t, n) \X Batches(SystemNames[2], t, n)
                        \X Batches(SystemNames[3], t, n) :
                    Len(q[1]) + Len(q[2]) + Len(q[3]) <= n}}

----------------------------------------------------------------------------
(* DefenseCoordinator *)

\* datetime.fromisoformat(a["timestamp"])
Timestamp(a) == a.timestamp

\* the collection loop with the threshold tested by >= instead of >
CollectAlerts_Inclusive(report, config, t) ==
    LET Kept == SelectSeq(report,
                    LAMBDA r : Get(r.alert, "confidence", 0) >= config.alert_threshold)
    IN  [i \in 1..Len(Kept) |->
            [system |-> Kept[i].system, coordinated_at |-> t] @@ Kept[i].alert]

\* _process_alerts, the collection loop: the findings above the alert threshold,
\* each stamped with its system and the coordination time
CollectAlerts(report, config, t) ==
    LET Kept == SelectSeq(report,
                    LAMBDA r : Get(r.alert, "confidence", 0) > config.alert_threshold)
    IN  [i \in 1..Len(Kept) |->
            [system |-> Kept[i].system, coordinated_at |-> t] @@ Kept[i].alert]

\* _filter_alerts: recent_alerts, the stored alerts of the trailing hour
RecentAlerts(store, t) ==
    SelectSeq(store, LAMBDA a : Timestamp(a) > t - RateWindowMinutes)

\* recent_alerts[-10:]
LastN(s, n) == IF Len(s) <= n THEN s ELSE SubSeq(s, Len(s) - n + 1, Len(s))

\* the duplicate test, were it to compare the origin as well as the type
IsDuplicateOf_SameOrigin(alert, existing) ==
    /\ Get(alert, "type", "None") = Get(existing, "type", "None")
    /\ Get(alert, "system", "None") = Get(existing, "system", "None")
    /\ Timestamp(alert) - Timestamp(existing) < DedupMinutes

\* _filter_alerts: the duplicate test of one candidate against one stored alert
IsDuplicateOf(alert, existing) ==
    /\ Get(alert, "type", "None") = Get(existing, "type", "None")
    /\ Timestamp(alert) - Timestamp(existing) < DedupMinutes

\* _filter_alerts with the rate limit tested by > instead of >=
FilterAlerts_StrictLimit(store, candidates, config, t) ==
    LET recent == RecentAlerts(store, t)
        window == LastN(recent, DedupWindow)
    IN  IF Len(recent) > config.max_alerts_per_hour
        THEN <<>>
        ELSE SelectSeq(candidates,
                LAMBDA c : ~ \E i \in 1..Len(window) : IsDuplicateOf(c, window[i]))

\* _filter_alerts
FilterAlerts(store, candidates, config, t) ==
    LET recent == RecentAlerts(store, t)
        window == LastN(recent, DedupWindow)
    IN  IF Len(recent) >= config.max_alerts_per_hour
        THEN <<>>
        ELSE SelectSeq(candidates,
                LAMBDA c : ~ \E i \in 1..Len(window) : IsDuplicateOf(c, window[i]))

\* _determine_response_actions without the lower() of the type
DetermineResponseActions_CaseSensitive(alert) ==
    LET alert_type == Chars(Get(alert, "type", ""))
        confidence == Get(alert, "confidence", 0)
    IN  IF confidence > HighConfidence
        THEN IF Contains(STR_anomaly, alert_type)
                THEN <<"isolate_resource", "increase_monitoring">>
             ELSE IF Contains(STR_threat, alert_type)
                THEN <<"block_access", "log_incident">>
             ELSE IF Contains(STR_performance, alert_type)
                THEN <<"scale_resources", "trigger_upgrade">>
             ELSE <<>>
        ELSE IF confidence > MediumConfidence
        THEN <<"increase_monitoring">>
        ELSE <<>>

\* _determine_response_actions with the tiers tested by >= instead of >
DetermineResponseActions_InclusiveTiers(alert) ==
    LET alert_type == Chars(Get(alert, "type", ""))
        confidence == Get(alert, "confidence", 0)
    IN  IF confidence >= HighConfidence
        THEN IF Contains(STR_anomaly, Lower(alert_type))
                THEN <<"isolate_resource", "increase_monitoring">>
             ELSE IF Contains(STR_threat, Lower(alert_type))
                THEN <<"block_access", "log_incident">>
             ELSE IF Contains(STR_performance, Lower(alert_type))
                THEN <<"scale_resources", "trigger_upgrade">>
             ELSE <<>>
        ELSE IF confidence >= MediumConfidence
        THEN <<"increase_monitoring">>
        ELSE <<>>

\* _determine_response_actions, were it to log every incident the threat analyzer
\* reports
DetermineResponseActions_ByOrigin(alert) ==
    LET alert_type == Chars(Get(alert, "type", ""))
        confidence == Get(alert, "confidence", 0)
        extra == IF Get(alert, "system", "None") = "threat_analyzer"
                 THEN <<"log_incident">> ELSE <<>>
    IN  IF confidence > HighConfidence
        THEN IF Contains(STR_anomaly, Lower(alert_type))
                THEN <<"isolate_resource", "increase_monitoring">> \o extra
             ELSE IF Contains(STR_threat, Lower(alert_type))
                THEN <<"block_access", "log_incident">>
             ELSE IF Contains(STR_performance, Lower(alert_type))
                THEN <<"scale_resources", "trigger_upgrade">> \o extra
             ELSE extra
        ELSE IF confidence > MediumConfidence
        THEN <<"increase_monitoring">> \o extra
        ELSE <<>>

\* _determine_response_actions
DetermineResponseActions(alert) ==
    LET alert_type == Chars(Get(alert, "type", ""))
        confidence == Get(alert, "confidence", 0)
    IN  IF confidence > HighConfidence
        THEN IF Contains(STR_anomaly, Lower(alert_type))
                THEN <<"isolate_resource", "increase_monitoring">>
             ELSE IF Contains(STR_threat, Lower(alert_type))
                THEN <<"block_access", "log_incident">>
             ELSE IF Contains(STR_performance, Lower(alert_type))
                THEN <<"scale_resources", "trigger_upgrade">>
             ELSE <<>>
        ELSE IF confidence > MediumConfidence
        THEN <<"increase_monitoring">>
        ELSE <<>>

\* _execute_response_action: the response record it builds (and only logs)
ResponseRecord(action, alert, t) ==
    [action |-> action, alert_id |-> Get(alert, "id", "unknown"),
     timestamp |-> t, status |-> "executed"]

\* _coordinate_responses: the response_actions of each alert of the batch
ResponsePlans(batch) == [i \in 1..Len(batch) |-> DetermineResponseActions(batch[i])]

RECURSIVE CoordinateResponses(_, _)
\* _coordinate_responses: the records of every action of every alert, in order
CoordinateResponses(batch, t) ==
    IF batch = <<>> THEN <<>>
    ELSE LET actions == DetermineResponseActions(Head(batch))
         IN  [i \in 1..Len(actions) |-> ResponseRecord(actions[i], Head(batch), t)]
             \o CoordinateResponses(Tail(batch), t)

\* the pruning, were the alert that is exactly 24 hours old kept
PruneAlerts_Inclusive(store, t) ==
    SelectSeq(store, LAMBDA a : Timestamp(a) >= t - RetentionMinutes)

\* _process_alerts: keep only recent alerts
PruneAlerts(store, t) ==
    SelectSeq(store, LAMBDA a : Timestamp(a) > t - RetentionMinutes)

\* the trimming, were the first 100 cycles kept
TrimHistory_KeepOldest(h) == IF Len(h) > HistoryCap THEN SubSeq(h, 1, HistoryCap) ELSE h

\* _run_monitoring_cycle: keep only last 100 cycles
TrimHistory(h) == IF Len(h) > HistoryCap THEN LastN(h, HistoryCap) ELSE h

\* _process_alerts: update cycle results with alert count
RecordAlertCount(h, n) ==
    IF h # <<>> THEN [h EXCEPT ![Len(h)].alerts_generated = n] ELSE h

\* _process_alerts: logger.error for every system whose get_alerts() raised, in the
\* order the systems are visited
QueryErrors(raised) ==
    LET Raising == SelectSeq(SystemNames, LAMBDA s : s \in raised)
    IN  [i \in 1..Len(Raising) |-> [what |-> "get_alerts", system |-> Raising[i]]]

RECURSIVE PlannedAttempts(_, _)
\* _coordinate_responses: the calls of _execute_response_action the two loops make
\* for the alerts i.. of the batch, when no call raises past its boundary
PlannedAttempts(batch, i) ==
    IF i > Len(batch) THEN <<>>
    ELSE LET actions == DetermineResponseActions(batch[i])
         IN  [j \in 1..Len(actions) |-> [alert |-> i, action |-> actions[j]]]
             \o PlannedAttempts(batch, i + 1)

\* the calls made, were an exception of the action to leave _execute_response_action
\* and end _coordinate_responses in its except clause
Attempts_AbortOnFailure(batch, failing) ==
    LET planned == PlannedAttempts(batch, 1)
        Bad == {k \in 1..Len(planned) : planned[k].action \in failing}
    IN  IF Bad = {} THEN planned
        ELSE SubSeq(planned, 1, CHOOSE k \in Bad : \A m \in Bad : k <= m)

\* the calls of _execute_response_action made for a batch: the try/except of
\* _execute_response_action keeps every exception of the action inside the call
Attempts(batch, failing) == PlannedAttempts(batch, 1)

\* the response records built by the calls that did not raise
ExecutedRecords(batch, t, failing) ==
    LET done == SelectSeq(Attempts(batch, failing), LAMBDA a : a.action \notin failing)
    IN  [k \in 1..Len(done) |-> ResponseRecord(done[k].action, batch[done[k].alert], t)]

\* _execute_response_action: logger.error for every call that raised
ActionErrors(batch, failing) ==
    LET bad == SelectSeq(Attempts(batch, failing), LAMBDA a : a.action \in failing)
    IN  [k \in 1..Len(bad) |->
            [what |-> "execute_response_action", action |-> bad[k].action,
             alert_id |-> Get(batch[bad[k].alert], "id", "unknown")]]

----------------------------------------------------------------------------
(* Initial state: DefenseCoordinator.__init__ and AIDefenseContainer.__init__ *)

\* no request has been served yet
NoCall == [op |-> "none"]

DefaultConfig ==
    [monitoring_interval |-> DefaultMonitoringInterval,
     alert_threshold |-> DefaultAlertThreshold,
     auto_response |-> TRUE,
     max_alerts_per_hour |-> DefaultMaxAlertsPerHour]

Init ==
    /\ now = 0
    /\ defense_active = FALSE
    /\ phase = "idle"
    /\ alerts = <<>>
    /\ defense_history = <<>>
    /\ coordination_config = DefaultConfig
    /\ new_alerts = <<>>
    /\ filtered_alerts = <<>>
    /\ response_plans = <<>>
    /\ response_log = <<>>
    /\ cycles = 0
    /\ delivered = 0
    /\ error_log = <<>>
    /\ api_call = NoCall
    /\ loop_tasks = <<>>

----------------------------------------------------------------------------
(* Actions *)

\* POST /activate-defense
ActivateDefense ==
    /\ ~ defense_active
    /\ defense_active' = TRUE
    /\ phase' = "monitor"
    /\ UNCHANGED <<now, alerts, defense_history, coordination_config, new_alerts,
                   filtered_alerts, response_plans, response_log, cycles, delivered,
                   error_log, api_call, loop_tasks>>

\* _process_alerts, were the store assigned the admitted alerts instead of
\* extended with them
ProcessAlertsEffect_ReplaceStore(report, raised, failing) ==
    /\ LET collected == CollectAlerts(report, coordination_config, now)
           filtered == FilterAlerts(alerts, collected, coordination_config, now)
           respond == coordination_config.auto_response /\ filtered # <<>>
       IN  /\ new_alerts' = collected
           /\ filtered_alerts' = filtered
           /\ alerts' = PruneAlerts(filtered, now)
           /\ response_plans' = IF respond THEN ResponsePlans(filtered) ELSE <<>>
           /\ response_log' = IF respond THEN ExecutedRecords(filtered, now, failing) ELSE <<>>
           /\ error_log' = QueryErrors(raised)
                              \o (IF respond THEN ActionErrors(filtered, failing) ELSE <<>>)
           /\ defense_history' = RecordAlertCount(defense_history, Len(filtered))
    /\ delivered' = delivered + Len(report)

\* _process_alerts, what it does to the coordinator
ProcessAlertsEffect(report, raised, failing) ==
    /\ LET collected == CollectAlerts(report, coordination_config, now)
           filtered == FilterAlerts(alerts, collected, coordination_config, now)
           respond == coordination_config.auto_response /\ filtered # <<>>
       IN  /\ new_alerts' = collected
           /\ filtered_alerts' = filtered
           /\ alerts' = PruneAlerts(alerts \o filtered, now)
           /\ response_plans' = IF respond THEN ResponsePlans(filtered) ELSE <<>>
           /\ response_log' = IF respond THEN ExecutedRecords(filtered, now, failing) ELSE <<>>
           /\ error_log' = QueryErrors(raised)
                              \o (IF respond THEN ActionErrors(filtered, failing) ELSE <<>>)
           /\ defense_history' = RecordAlertCount(defense_history, Len(filtered))
    /\ delivered' = delivered + Len(report)

\* _run_monitoring_cycle: every system is polled (failed lists the systems whose
\* scan raised), the cycle record is appended and the history trimmed
RunMonitoringCycle(failed) ==
    /\ phase = "monitor"
    /\ LET results == [s \in {SystemNames[i] : i \in 1..Len(SystemNames)} |->
                          IF s \in failed THEN "error" ELSE "ok"]
           cycle_result == [timestamp |-> now, duration |-> 0, results |-> results,
                            alerts_generated |-> 0, cycle |-> cycles + 1]
       IN  defense_history' = TrimHistory(Append(defense_history, cycle_result))
    /\ cycles' = cycles + 1
    /\ phase' = "process"
    /\ UNCHANGED <<now, defense_active, alerts, coordination_config, new_alerts,
                   filtered_alerts, response_plans, response_log, delivered,
                   error_log, api_call, loop_tasks>>

\* _process_alerts.  `report` is what the systems' get_alerts() return, `raised` the
\* systems whose get_alerts() raised instead (they hand over nothing), `failing` the
\* response actions whose execution raises.
ProcessAlertsWith(report, raised, failing) ==
    /\ phase = "process"
    /\ \A i \in 1..Len(report) : report[i].system \notin raised
    /\ ProcessAlertsEffect(report, raised, failing)
    /\ phase' = "sleep"
    /\ UNCHANGED <<now, defense_active, coordination_config, cycles, api_call, loop_tasks>>

\* _process_alerts when nothing raises
ProcessAlerts(report) == ProcessAlertsWith(report, {}, {})

\* _start_defense_loop: asyncio.sleep(self.monitoring_interval), then the next turn
Sleep(d) ==
    /\ phase = "sleep"
    /\ defense_active
    /\ now' = now + d
    /\ phase' = "monitor"
    /\ new_alerts' = <<>>
    /\ filtered_alerts' = <<>>
    /\ response_plans' = <<>>
    /\ response_log' = <<>>
    /\ error_log' = <<>>
    /\ UNCHANGED <<defense_active, alerts, defense_history, coordination_config,
                   cycles, delivered, api_call, loop_tasks>>

\* update_configuration, were every key of the patch stored
ApplyUpdates_AddKeys(config, config_updates) == config_updates @@ config

\* update_configuration, the loop: `if key in self.coordination_config` lets only
\* the keys the configuration already has through
ApplyUpdates(config, config_updates) ==
    [key \in DOMAIN config |->
        IF key \in DOMAIN config_updates THEN config_updates[key] ELSE config[key]]

\* update_configuration: the recognized keys of the patch are applied
UpdateConfiguration(config_updates) ==
    /\ coordination_config' = ApplyUpdates(coordination_config, config_updates)
    /\ api_call' = [op |-> "update_configuration", config_updates |-> config_updates,
                    result |-> [updated |-> TRUE, configuration |-> coordination_config']]
    /\ UNCHANGED <<now, defense_active, phase, alerts, defense_history, new_alerts,
                   filtered_alerts, response_plans, response_log, cycles, delivered,
                   error_log, loop_tasks>>

\* the lookup, were it to fall back on the latest alert
FindAlert_Latest(store, alert_id) ==
    LET Hits == {i \in 1..Len(store) : Get(store[i], "id", <<>>) = alert_id}
    IN  IF Hits = {} THEN Len(store) ELSE CHOOSE i \in Hits : \A j \in Hits : i <= j

\* manual_response, the lookup: the position of the first alert of the store with
\* that id, 0 when there is none
FindAlert(store, alert_id) ==
    LET Hits == {i \in 1..Len(store) : Get(store[i], "id", <<>>) = alert_id}
    IN  IF Hits = {} THEN 0 ELSE CHOOSE i \in Hits : \A j \in Hits : i <= j

\* manual_response(alert_id, action); raises tells whether the action's execution
\* raises
ManualResponse(alert_id, action, raises) ==
    /\ LET i == FindAlert(alerts, alert_id)
       IN  IF i = 0
           THEN /\ api_call' = [op |-> "manual_response", alert_id |-> alert_id,
                                action |-> action,
                                result |-> [error |-> "Alert not found", executed |-> FALSE]]
                /\ response_log' = <<>>
                /\ error_log' = <<>>
           ELSE /\ api_call' = [op |-> "manual_response", alert_id |-> alert_id,
                                action |-> action,
                                result |-> [executed |-> TRUE, alert_id |-> alert_id,
                                            action |-> action, timestamp |-> now]]
                /\ response_log' = IF raises THEN <<>>
                                   ELSE <<ResponseRecord(action, alerts[i], now)>>
                /\ error_log' = IF raises
                                THEN <<[what |-> "execute_response_action", action |-> action,
                                        alert_id |-> Get(alerts[i], "id", "unknown")]>>
                                ELSE <<>>
    /\ UNCHANGED <<now, defense_active, phase, alerts, defense_history, coordination_config,
                   new_alerts, filtered_alerts, response_plans, cycles, delivered, loop_tasks>>

\* get_alert_history, were it to select by the time of admission
AlertHistory_ByAdmission(store, hours, t) ==
    SelectSeq(store, LAMBDA a : a.coordinated_at > t - hours * MinutesPerHour)

\* get_alert_history: the alerts whose timestamp is after the cutoff, in store order
AlertHistory(store, hours, t) ==
    SelectSeq(store, LAMBDA a : Timestamp(a) > t - hours * MinutesPerHour)

\* get_alert_history, were it to drop from the store what it does not return
GetAlertHistory_Pruning(hours) ==
    /\ api_call' = [op |-> "get_alert_history", hours |-> hours,
                    result |-> AlertHistory(alerts, hours, now)]
    /\ alerts' = AlertHistory(alerts, hours, now)
    /\ UNCHANGED <<now, defense_active, phase, defense_history, coordination_config,
                   new_alerts, filtered_alerts, response_plans, response_log, cycles,
                   delivered, error_log, loop_tasks>>

\* GET /alerts?hours=N: get_alert_history(hours)
GetAlertHistory(hours) ==
    /\ api_call' = [op |-> "get_alert_history", hours |-> hours,
                    result |-> AlertHistory(alerts, hours, now)]
    /\ UNCHANGED <<now, defense_active, phase, alerts, defense_history, coordination_config,
                   new_alerts, filtered_alerts, response_plans, response_log, cycles,
                   delivered, error_log, loop_tasks>>

\* get_defense_status: the snapshot it returns (the systems' own get_status()
\* answers are theirs and are left out)
DefenseStatus ==
    [coordinator_status |-> "ready",
     active_alerts |-> Len(alerts),
     recent_cycles |-> Len(defense_history),
     configuration |-> coordination_config,
     last_cycle |-> IF defense_history # <<>>
                    THEN <<defense_history[Len(defense_history)]>> ELSE <<>>]

\* GET /defense-status: get_defense_status()
GetDefenseStatus ==
    /\ api_call' = [op |-> "get_defense_status", result |-> DefenseStatus]
    /\ UNCHANGED <<now, defense_active, phase, alerts, defense_history, coordination_config,
                   new_alerts, filtered_alerts, response_plans, response_log, cycles,
                   delivered, error_log, loop_tasks>>

\* the configuration patches the model's callers post
ConfigPatches == {[max_alerts_per_hour |-> 1]}

Next ==
    \/ ActivateDefense
    \/ \E patch \in ConfigPatches : UpdateConfiguration(patch)
    \/ cycles < MaxCycles /\ RunMonitoringCycle({})
    \/ \E report \in Reports(now, MaxFindings - delivered) : ProcessAlerts(report)
    \/ \E d \in Steps : cycles < MaxCycles /\ Sleep(d)

Spec == Init /\ [][Next]_vars

----------------------------------------------------------------------------
(* The cycle history over many cycles: the loop runs MaxHistoryCycles cycles, one
   minute apart, and the detectors report nothing. *)

NextHistory ==
    \/ ActivateDefense
    \/ cycles < MaxHistoryCycles /\ RunMonitoringCycle({})
    \/ ProcessAlerts(<<>>)
    \/ cycles < MaxHistoryCycles /\ Sleep(1)

SpecHistory == Init /\ [][NextHistory]_vars

----------------------------------------------------------------------------
(* Alert processing on its own: _process_alerts runs once, on at most one finding,
   with the coordinator holding a store of up to MaxFill + 1 alerts admitted by
   earlier cycles, under the default hourly limit or one raised to 20. *)

\* an alert as the store holds it
StoredAlert(kind, conf, ts, system, at) ==
    [system |-> system, coordinated_at |-> at] @@ Finding(kind, conf, ts)

\* the oldest alert of the store: detected 2, 58 or 62 minutes ago, the last of
\* them admitted an hour after it was detected
OldestAlerts ==
    {StoredAlert(k, 95, p[1], SystemNames[2], p[2]) :
        k \in {KIND_threat_x, KIND_anomaly_detected},
        p \in {<<-2, -2>>, <<-58, -58>>, <<-62, -2>>}}

\* the alerts admitted after it, all alike
LaterAlerts ==
    {StoredAlert(k, 80, ts, SystemNames[1], ts) :
        k \in {KIND_threat_x, KIND_anomaly_detected}, ts \in {-30, -2}}

FilterStores ==
    {<<>>} \cup {<<first>> \o [i \in 1..k |-> later] :
                    first \in OldestAlerts, later \in LaterAlerts, k \in 0..MaxFill}

InitFilter ==
    /\ now = 0
    /\ defense_active = TRUE
    /\ phase = "process"
    /\ alerts \in FilterStores
    /\ defense_history = <<>>
    /\ coordination_config \in
          {DefaultConfig, [DefaultConfig EXCEPT !.max_alerts_per_hour = 20]}
    /\ new_alerts = <<>>
    /\ filtered_alerts = <<>>
    /\ response_plans = <<>>
    /\ response_log = <<>>
    /\ cycles = 0
    /\ delivered = 0
    /\ error_log = <<>>
    /\ api_call = NoCall
    /\ loop_tasks = <<>>

NextFilter == \E report \in Reports(now, 1) : ProcessAlerts(report)

SpecFilter == InitFilter /\ [][NextFilter]_vars

----------------------------------------------------------------------------
(* The response planner on its own: _coordinate_responses is handed two alerts
   drawn from a range of types, confidences and origins, with the coordinator in
   a state that holds earlier alerts or none. *)

PlannerKinds ==
    {KIND_threat_x, KIND_anomaly_detected, KIND_threat_performance_x, KIND_threat_anomaly,
     KIND_Threat_X, KIND_PERFORMANCE_drop, KIND_brute_force_attempt}

PlannerConfidences == {0, 70, 71, 90, 91, 100}

PlannerAlerts ==
    LET Stamp(f, system) == [system |-> system, coordinated_at |-> 0] @@ f
    IN  {Stamp(Finding(k, c, 0), SystemNames[i]) :
            k \in PlannerKinds, c \in PlannerConfidences, i \in 1..2}
        \cup {Stamp(FindingNoConfidence(k, 0), SystemNames[2]) : k \in PlannerKinds}

InitPlanner ==
    /\ now = 0
    /\ defense_active = TRUE
    /\ phase = "respond"
    /\ alerts \in {<<>>, <<[system |-> SystemNames[1], coordinated_at |-> 0]
                             @@ Finding(KIND_threat_x, 95, 0)>>}
    /\ defense_history = <<>>
    /\ coordination_config = DefaultConfig
    /\ new_alerts = <<>>
    /\ filtered_alerts \in {<<a, b>> : a \in PlannerAlerts, b \in PlannerAlerts}
    /\ response_plans = <<>>
    /\ response_log = <<>>
    /\ cycles = 0
    /\ delivered = 0
    /\ error_log = <<>>
    /\ api_call = NoCall
    /\ loop_tasks = <<>>

\* _coordinate_responses(filtered_alerts)
CoordinateResponsesStep ==
    /\ phase = "respond"
    /\ response_plans' = ResponsePlans(filtered_alerts)
    /\ response_log' = CoordinateResponses(filtered_alerts, now)
    /\ phase' = "responded"
    /\ UNCHANGED <<now, defense_active, alerts, defense_history, coordination_config,
                   new_alerts, filtered_alerts, cycles, delivered,
                   error_log, api_call, loop_tasks>>

SpecPlanner == InitPlanner /\ [][CoordinateResponsesStep]_vars

----------------------------------------------------------------------------
(* One cycle in which detectors and response actions may fail: any of the scans
   may raise, any of the alert queries may raise, and the execution of some
   response actions raises every time. *)

\* the sets of systems that may fail together
SystemSets == SUBSET {SystemNames[i] : i \in 1..Len(SystemNames)}

\* the sets of response actions whose execution raises
FailingActions == SUBSET {"block_access", "increase_monitoring"}

NextIsolation ==
    \/ ActivateDefense
    \/ \E failed \in SystemSets : cycles = 0 /\ RunMonitoringCycle(failed)
    \/ /\ phase = "process"
       /\ \E report \in Reports(now, MaxFindings) :
             \E raised \in SystemSets, failing \in FailingActions :
                 ProcessAlertsWith(report, raised, failing)

SpecIsolation == Init /\ [][NextIsolation]_vars

----------------------------------------------------------------------------
(* The monitoring loop with the requests of the API arriving between its steps:
   manual responses, history queries and status queries.  The detectors hand
   over at most one finding a cycle. *)

\* an id no alert has
UnknownId == <<"no_such_alert", 0>>

\* the ids a caller may name: those of the stored alerts and an unknown one
RequestIds == {alerts[i].id : i \in 1..Len(alerts)} \cup {UnknownId}

\* the actions a caller may ask for (any string is taken)
ManualActions == {"block_access", "quarantine"}

\* the windows a caller may ask for, in hours
HistoryWindows == {1, DefaultHistoryHours}

\* how long the loop takes from one cycle to the next (minutes)
ApiSteps == {4, 1440}

NextApi ==
    \/ ActivateDefense
    \/ cycles < MaxCycles /\ RunMonitoringCycle({})
    \/ /\ phase = "process"
       /\ \E report \in Reports(now, IF delivered < MaxFindings THEN 1 ELSE 0) :
             ProcessAlerts(report)
    \/ \E d \in ApiSteps : cycles < MaxCycles /\ Sleep(d)
    \/ \E alert_id \in RequestIds, action \in ManualActions, raises \in BOOLEAN :
          ManualResponse(alert_id, action, raises)
    \/ \E hours \in HistoryWindows : GetAlertHistory(hours)
    \/ GetDefenseStatus

SpecApi == Init /\ [][NextApi]_vars

----------------------------------------------------------------------------
(* One cycle with configuration updates arriving at any point: before the cycle,
   during it and after it. *)

\* the patches the callers post: recognized keys, unrecognized keys, both
ConfigRequests ==
    {[alert_threshold |-> 80],
     [alert_threshold |-> -10, debug |-> TRUE],
     [auto_response |-> FALSE, monitoring_interval |-> 60],
     [retention_hours |-> 1]}

NextConfig ==
    \/ ActivateDefense
    \/ \E patch \in ConfigRequests : UpdateConfiguration(patch)
    \/ cycles = 0 /\ RunMonitoringCycle({})
    \/ /\ phase = "process"
       /\ \E report \in Reports(now, MaxFindings) : ProcessAlerts(report)

SpecConfig == Init /\ [][NextConfig]_vars

----------------------------------------------------------------------------
(* The background loops as tasks.  Every accepted POST /activate-defense adds a
   _start_defense_loop task; shutdown only clears defense_active, which a loop
   reads at the top of each turn.  A task is at "check" (the while test),
   "monitor" (in _run_monitoring_cycle), "process" (the cycle record written,
   _process_alerts awaiting the detectors), "sleep" or "done". *)

\* POST /activate-defense: the flag is set and a loop task is added
StartDefenseLoop ==
    /\ ~ defense_active
    /\ Len(loop_tasks) < MaxLoops
    /\ defense_active' = TRUE
    /\ loop_tasks' = Append(loop_tasks, "check")
    /\ UNCHANGED <<now, phase, alerts, defense_history, coordination_config, new_alerts,
                   filtered_alerts, response_plans, response_log, cycles, delivered,
                   error_log, api_call>>

\* shutdown: the flag is cleared, and nothing else
Shutdown ==
    /\ defense_active
    /\ defense_active' = FALSE
    /\ UNCHANGED <<now, phase, alerts, defense_history, coordination_config, new_alerts,
                   filtered_alerts, response_plans, response_log, cycles, delivered,
                   error_log, api_call, loop_tasks>>

\* the cycles run and the cycles entered
CyclesEntered == cycles + Cardinality({k \in 1..Len(loop_tasks) : loop_tasks[k] = "monitor"})

\* the loop, were the flag never read again
LoopCheck_IgnoresFlag(i) ==
    /\ loop_tasks[i] = "check"
    /\ CyclesEntered < MaxCycles
    /\ loop_tasks' = [loop_tasks EXCEPT ![i] = "monitor"]
    /\ UNCHANGED <<now, defense_active, phase, alerts, defense_history, coordination_config,
                   new_alerts, filtered_alerts, response_plans, response_log, cycles,
                   delivered, error_log, api_call>>

\* _start_defense_loop: while self.defense_active; a turn that passes the test has
\* entered _perform_monitoring_cycle (MaxCycles caps the turns)
LoopCheck(i) ==
    /\ loop_tasks[i] = "check"
    /\ defense_active => CyclesEntered < MaxCycles
    /\ loop_tasks' = [loop_tasks EXCEPT ![i] = IF defense_active THEN "monitor" ELSE "done"]
    /\ UNCHANGED <<now, defense_active, phase, alerts, defense_history, coordination_config,
                   new_alerts, filtered_alerts, response_plans, response_log, cycles,
                   delivered, error_log, api_call>>

\* _perform_monitoring_cycle of task i: _run_monitoring_cycle
LoopRunMonitoringCycle(i) ==
    /\ loop_tasks[i] = "monitor"
    /\ LET results == [s \in {SystemNames[k] : k \in 1..Len(SystemNames)} |-> "ok"]
           cycle_result == [timestamp |-> now, duration |-> 0, results |-> results,
                            alerts_generated |-> 0, cycle |-> cycles + 1]
       IN  defense_history' = TrimHistory(Append(defense_history, cycle_result))
    /\ cycles' = cycles + 1
    /\ loop_tasks' = [loop_tasks EXCEPT ![i] = "process"]
    /\ UNCHANGED <<now, defense_active, phase, alerts, coordination_config, new_alerts,
                   filtered_alerts, response_plans, response_log, delivered,
                   error_log, api_call>>

\* _perform_monitoring_cycle of task i: _process_alerts
LoopProcessAlerts(i, report) ==
    /\ loop_tasks[i] = "process"
    /\ ProcessAlertsEffect(report, {}, {})
    /\ loop_tasks' = [loop_tasks EXCEPT ![i] = "sleep"]
    /\ UNCHANGED <<now, defense_active, phase, coordination_config, cycles, api_call>>

\* _start_defense_loop of task i: asyncio.sleep(self.monitoring_interval) is over
LoopWake(i, d) ==
    /\ loop_tasks[i] = "sleep"
    /\ now' = now + d
    /\ loop_tasks' = [loop_tasks EXCEPT ![i] = "check"]
    /\ UNCHANGED <<defense_active, phase, alerts, defense_history, coordination_config,
                   new_alerts, filtered_alerts, response_plans, response_log, cycles,
                   delivered, error_log, api_call>>

NextLoops ==
    \/ StartDefenseLoop
    \/ Shutdown
    \/ \E i \in 1..Len(loop_tasks) : LoopCheck(i)
    \/ \E i \in 1..Len(loop_tasks) : LoopRunMonitoringCycle(i)
    \/ \E i \in 1..Len(loop_tasks) :
          /\ loop_tasks[i] = "process"
          /\ \E report \in Reports(now, IF delivered < MaxFindings THEN 1 ELSE 0) :
                LoopProcessAlerts(i, report)
    \/ \E i \in 1..Len(loop_tasks), d \in ApiSteps : LoopWake(i, d)

SpecLoops == Init /\ [][NextLoops]_vars

\* what the anomaly detector may hand a cycle of the loop under shutdown: nothing,
\* or one finding of the moment
ShutdownReports(t) ==
    {r \in Reports(t, IF delivered < MaxFindings THEN 1 ELSE 0) :
        \A k \in 1..Len(r) : r[k].system = "anomaly_detector" /\ r[k].alert.timestamp = t}

\* the sleep of the loop (minutes)
ShutdownSteps == {4}

\* one task's steps: the event loop resumes every task that can run, a detector
\* call returns and a sleep ends
LoopStep(i) ==
    /\ i <= Len(loop_tasks)
    /\ \/ LoopCheck(i)
       \/ LoopRunMonitoringCycle(i)
       \/ /\ loop_tasks[i] = "process"
          /\ \E report \in ShutdownReports(now) : LoopProcessAlerts(i, report)
       \/ \E d \in ShutdownSteps : LoopWake(i, d)

NextShutdown ==
    \/ StartDefenseLoop
    \/ Shutdown
    \/ \E i \in 1..Len(loop_tasks) : LoopCheck(i)
    \/ \E i \in 1..Len(loop_tasks) : LoopRunMonitoringCycle(i)
    \/ \E i \in 1..Len(loop_tasks) :
          /\ loop_tasks[i] = "process"
          /\ \E report \in ShutdownReports(now) : LoopProcessAlerts(i, report)
    \/ \E i \in 1..Len(loop_tasks), d \in ShutdownSteps : LoopWake(i, d)

SpecShutdown == Init /\ [][NextShutdown]_vars /\ \A i \in 1..MaxLoops : WF_vars(LoopStep(i))

----------------------------------------------------------------------------
(* Intake: what the coordinator does with findings of every confidence and age *)

\* the confidences of the findings handed to the intake (hundredths): below the
\* default threshold, on it, above the high tier
IntakeConfidences == {50, MediumConfidence, 95}

\* how long before the query a finding was detected (minutes)
IntakeOffsets == {0, RetentionMinutes}

\* What the two detectors may answer to get_alerts() at time t: every finding
\* carries a confidence
IntakeFindings(system, t) ==
    CASE system = "anomaly_detector" ->
            {Finding(KIND_anomaly_detected, c, t - o) :
                c \in IntakeConfidences, o \in IntakeOffsets}
      [] system = "threat_analyzer" ->
            {Finding(KIND_threat_x, 95, t - o) : o \in IntakeOffsets}
      [] OTHER -> {}

IntakeBatches(system, t, n) == UNION {[1..k -> IntakeFindings(system, t)] : k \in 0..n}

\* One answer of the detectors: at most n findings in all, in the order the
\* coordinator visits the systems
IntakeReports(t, n) ==
    {Tag(p[1], SystemNames[1]) \o Tag(p[2], SystemNames[2]) :
        p \in {q \in IntakeBatches(SystemNames[1], t, n) \X IntakeBatches(SystemNames[2], t, n) :
                    Len(q[1]) + Len(q[2]) <= n}}

\* the configuration is set before defense is activated and is fixed from then on
NextIntake ==
    \/ /\ phase = "idle"
       /\ \E patch \in ConfigPatches : UpdateConfiguration(patch)
    \/ ActivateDefense
    \/ cycles < MaxCycles /\ RunMonitoringCycle({})
    \/ /\ phase = "process"
       /\ \E report \in IntakeReports(now, MaxFindings) : ProcessAlerts(report)
    \/ \E d \in ApiSteps : cycles < MaxCycles /\ Sleep(d)

SpecIntake == Init /\ [][NextIntake]_vars

----------------------------------------------------------------------------
(* The coordinator's own loop: start_defense_monitoring *)

\* the delays get a number; update_configuration stores any value under
\* monitoring_interval, a number or not
DelayRange == 0..60

\* asyncio.sleep(v) accepts v: v is a number (values of different kinds are told
\* apart by how they are written)
IsDelay(v) == ToString(v) \in {ToString(n) : n \in DelayRange}

\* a request that stores a number, and one that stores a value that is no delay
ValidDelayPatch == [monitoring_interval |-> 60]
InvalidDelayPatch == [monitoring_interval |-> "soon"]

\* start_defense_monitoring is entered: while True
StartDefenseMonitoring ==
    /\ phase = "idle"
    /\ phase' = "monitor"
    /\ UNCHANGED <<now, defense_active, alerts, defense_history, coordination_config,
                   new_alerts, filtered_alerts, response_plans, response_log, cycles,
                   delivered, error_log, api_call, loop_tasks>>

\* start_defense_monitoring: await asyncio.sleep(monitoring_interval).  The try
\* is around the while: when the sleep raises, the function logs and returns.
MonitoringSleep(d) ==
    /\ phase = "sleep"
    /\ IF IsDelay(coordination_config.monitoring_interval)
       THEN /\ now' = now + d
            /\ phase' = "monitor"
            /\ error_log' = <<>>
       ELSE /\ now' = now
            /\ phase' = "returned"
            /\ error_log' = <<[what |-> "defense_monitoring"]>>
    /\ new_alerts' = <<>>
    /\ filtered_alerts' = <<>>
    /\ response_plans' = <<>>
    /\ response_log' = <<>>
    /\ UNCHANGED <<defense_active, alerts, defense_history, coordination_config,
                   cycles, delivered, api_call, loop_tasks>>

\* the systems whose scan or alert query raises, and the actions that fail
MonitoringFaults == {{}, {"anomaly_detector"}}
MonitoringFailingActions == {{}, {"increase_monitoring"}}

\* shutdown is never requested here: the container's flag is not read by this loop
NextMonitoring ==
    \/ StartDefenseMonitoring
    \/ UpdateConfiguration(ValidDelayPatch)
    \/ UpdateConfiguration(InvalidDelayPatch)
    \/ \E failed \in MonitoringFaults : cycles < MaxCycles /\ RunMonitoringCycle(failed)
    \/ /\ phase = "process"
       /\ \E report \in Reports(now, IF delivered < MaxFindings THEN 1 ELSE 0) :
             \E raised \in MonitoringFaults, failing \in MonitoringFailingActions :
                ProcessAlertsWith(report, raised, failing)
    \/ \E d \in ShutdownSteps : MonitoringSleep(d)

SpecMonitoring == Init /\ [][NextMonitoring]_vars

----------------------------------------------------------------------------
(* Properties *)

\* a step of _process_alerts
IsProcessStep == phase = "process" /\ phase' = "sleep"

\* the action names of a list of response records
ActionsOf(records) == {records[i].action : i \in 1..Len(records)}

\* the first cycle has just run, from the empty store and the default
\* configuration, and the detectors handed over exactly one finding:
\* threat_x with confidence 0.95
C1_Scenario ==
    /\ phase = "sleep"
    /\ cycles = 1
    /\ coordination_config = DefaultConfig
    /\ delivered = 1
    /\ Len(new_alerts) = 1
    /\ new_alerts[1].type = KIND_threat_x
    /\ new_alerts[1].confidence = 95

\* C1: after one full cycle on the single finding threat_x / 0.95, the Alert Store
\* holds exactly one alert, of that kind, with status "responded" and with
\* block_access and log_incident among its responses.
C1_EndToEnd ==
    C1_Scenario =>
        /\ Len(alerts) = 1
        /\ alerts[1].type = KIND_threat_x
        /\ Get(alerts[1], "status", "None") = "responded"
        /\ {"block_access", "log_incident"}
              \subseteq ActionsOf(Get(alerts[1], "responses", <<>>))

\* the number of stored alerts admitted (coordinated) within the trailing hour
AdmittedInLastHour(store, t) ==
    Cardinality({i \in 1..Len(store) : store[i].coordinated_at > t - RateWindowMinutes})

\* the number of stored alerts whose timestamp lies within the trailing hour
StampedInLastHour(store, t) ==
    Cardinality({i \in 1..Len(store) : store[i].timestamp > t - RateWindowMinutes})

\* every alert of the store after the step was in it before
GainsNoAlert == \A i \in 1..Len(alerts') : \E j \in 1..Len(alerts) : alerts'[i] = alerts[j]

\* C2 as claimed: when the number of stored alerts admitted within the trailing
\* hour is at least max_alerts_per_hour, the filter returns the empty list and the
\* store gains no alert.
C2_RateLimitByAdmission ==
    [][(IsProcessStep
        /\ AdmittedInLastHour(alerts, now) >= coordination_config.max_alerts_per_hour)
       => (filtered_alerts' = <<>> /\ GainsNoAlert)]_vars

\* C2, amended: when the number of stored alerts whose timestamp (the finding's
\* occurred_at) lies within the trailing hour is at least max_alerts_per_hour, the
\* filter returns the empty list, whatever the candidates, and the store gains no
\* alert in that cycle.
C2_RateLimitByTimestamp ==
    [][(IsProcessStep
        /\ StampedInLastHour(alerts, now) >= coordination_config.max_alerts_per_hour)
       => (filtered_alerts' = <<>> /\ GainsNoAlert)]_vars

\* a cycle in which the rate limit was hit and a candidate of confidence 0.95 was
\* turned away
C2_Witness ==
    /\ phase = "sleep"
    /\ coordination_config = DefaultConfig
    /\ StampedInLastHour(alerts, now) >= coordination_config.max_alerts_per_hour
    /\ \E i \in 1..Len(new_alerts) : new_alerts[i].confidence = 95
    /\ filtered_alerts = <<>>
    /\ \A i \in 1..Len(alerts) : alerts[i].coordinated_at < now

----------------------------------------------------------------------------
(* Deduplication *)

Abs(x) == IF x < 0 THEN -x ELSE x

\* the rate limit does not stop the call of _filter_alerts this step makes
RateLimitNotHit ==
    StampedInLastHour(alerts, now) < coordination_config.max_alerts_per_hour

\* the last-10 window of the last-hour slice of the store, before the step
DedupWindowOf(store, t) == LastN(RecentAlerts(store, t), DedupWindow)

\* candidate c is among the alerts the filter returned
Admitted(c, filtered) == \E k \in 1..Len(filtered) : filtered[k] = c

\* C3: with the rate limit not hit, a candidate is dropped when some alert of the
\* last-10 window of the last-hour slice has the same kind and a timestamp less than
\* 5 minutes away from the candidate's; nothing but the kind is compared.
C3_DedupDrops ==
    [][(IsProcessStep /\ RateLimitNotHit) =>
        LET window == DedupWindowOf(alerts, now)
        IN  \A i \in 1..Len(new_alerts') :
              (\E j \in 1..Len(window) :
                  /\ window[j].type = new_alerts'[i].type
                  /\ Abs(new_alerts'[i].timestamp - window[j].timestamp) < DedupMinutes)
              => ~ Admitted(new_alerts'[i], filtered_alerts')]_vars

\* the alerts the store held before the cycle that has just run
StoredBefore == SelectSeq(alerts, LAMBDA a : a.coordinated_at < now)

\* with more than 10 alerts in the last-hour slice and the rate limit not hit, a
\* candidate was dropped as the duplicate of an alert of the last-10 window that
\* has another origin and another confidence
C3_Witness ==
    /\ phase = "sleep"
    /\ StampedInLastHour(StoredBefore, now) < coordination_config.max_alerts_per_hour
    /\ Len(RecentAlerts(StoredBefore, now)) > DedupWindow
    /\ LET window == DedupWindowOf(StoredBefore, now)
       IN  \E i \in 1..Len(new_alerts) : \E j \in 1..Len(window) :
              /\ ~ Admitted(new_alerts[i], filtered_alerts)
              /\ window[j].type = new_alerts[i].type
              /\ Abs(new_alerts[i].timestamp - window[j].timestamp) < DedupMinutes
              /\ window[j].system # new_alerts[i].system
              /\ window[j].confidence # new_alerts[i].confidence

\* no alert of the window matches candidate c (same kind, less than 5 minutes away)
NoStoredMatch(c, window) ==
    \A j \in 1..Len(window) :
        ~ (window[j].type = c.type /\ Abs(c.timestamp - window[j].timestamp) < DedupMinutes)

\* C4: with the rate limit not hit and no matching alert stored, of two candidates
\* of one batch with the same kind and timestamps 4 minutes apart only the first is
\* admitted.
C4_DedupWithinBatch ==
    [][(IsProcessStep /\ RateLimitNotHit) =>
        LET window == DedupWindowOf(alerts, now)
        IN  \A i, j \in 1..Len(new_alerts') :
              (/\ i < j
               /\ new_alerts'[i].type = new_alerts'[j].type
               /\ Abs(new_alerts'[i].timestamp - new_alerts'[j].timestamp) = 4
               /\ NoStoredMatch(new_alerts'[i], window)
               /\ NoStoredMatch(new_alerts'[j], window))
              => (Admitted(new_alerts'[i], filtered_alerts')
                  /\ ~ Admitted(new_alerts'[j], filtered_alerts'))]_vars

\* C5: with the rate limit not hit, a candidate is admitted whenever every alert of
\* the same kind in the last-10 window has a timestamp more than 5 minutes away
\* from the candidate's, before it or after it.
C5_DedupAdmits ==
    [][(IsProcessStep /\ RateLimitNotHit) =>
        LET window == DedupWindowOf(alerts, now)
        IN  \A i \in 1..Len(new_alerts') :
              (\A j \in 1..Len(window) :
                  window[j].type = new_alerts'[i].type
                  => Abs(new_alerts'[i].timestamp - window[j].timestamp) > DedupMinutes)
              => Admitted(new_alerts'[i], filtered_alerts')]_vars

----------------------------------------------------------------------------
(* Retention and history *)

Min(a, b) == IF a < b THEN a ELSE b

\* C7: the history holds at most 100 records: all the cycles run so far while they
\* are at most 100, and after that exactly the 100 most recent, oldest first.
C7_HistoryBound ==
    /\ Len(defense_history) = Min(cycles, HistoryCap)
    /\ \A i \in 1..Len(defense_history) :
          defense_history[i].cycle = cycles - Len(defense_history) + i

\* more than 100 cycles have run and the oldest records are gone
C7_Witness ==
    /\ cycles > HistoryCap
    /\ phase = "process"
    /\ Len(defense_history) = HistoryCap
    /\ defense_history[1].cycle = cycles - HistoryCap + 1
    /\ defense_history[HistoryCap].cycle = cycles

----------------------------------------------------------------------------
(* The planner *)

\* the type contains the word, whatever the case
Mentions(alert, word) == Contains(word, Lower(Chars(alert.type)))

AnomalyRow(alert) ==
    IF Mentions(alert, STR_anomaly) THEN <<"isolate_resource", "increase_monitoring">> ELSE <<>>

ThreatRow(alert) ==
    IF Mentions(alert, STR_threat) THEN <<"block_access", "log_incident">> ELSE <<>>

PerformanceRow(alert) ==
    IF Mentions(alert, STR_performance) THEN <<"scale_resources", "trigger_upgrade">> ELSE <<>>

\* the plans have been made
Planned == phase = "responded" /\ Len(response_plans) = Len(filtered_alerts)

\* C8 as claimed: an alert of confidence above 0.9 gets the actions of every row
\* its type matches, in table order.
C8_HighTierEveryRow ==
    Planned =>
        \A i \in 1..Len(filtered_alerts) :
            Get(filtered_alerts[i], "confidence", 0) > HighConfidence
            => response_plans[i] = AnomalyRow(filtered_alerts[i])
                                   \o ThreatRow(filtered_alerts[i])
                                   \o PerformanceRow(filtered_alerts[i])

\* C8, amended: an alert of confidence above 0.9 gets the actions of the first row
\* its type matches, in table order (anomaly, threat, performance), the match being
\* case-insensitive; the rows are mutually exclusive.
C8_HighTierFirstRow ==
    Planned =>
        \A i \in 1..Len(filtered_alerts) :
            Get(filtered_alerts[i], "confidence", 0) > HighConfidence
            => response_plans[i] =
                  IF AnomalyRow(filtered_alerts[i]) # <<>> THEN AnomalyRow(filtered_alerts[i])
                  ELSE IF ThreatRow(filtered_alerts[i]) # <<>> THEN ThreatRow(filtered_alerts[i])
                  ELSE PerformanceRow(filtered_alerts[i])

\* threat_performance_x at confidence above 0.9 was given the threat row only, and
\* Threat_X the threat row
C8_Witness ==
    /\ Planned
    /\ filtered_alerts[1].type = KIND_threat_performance_x
    /\ Get(filtered_alerts[1], "confidence", 0) > HighConfidence
    /\ response_plans[1] = <<"block_access", "log_incident">>
    /\ filtered_alerts[2].type = KIND_Threat_X
    /\ Get(filtered_alerts[2], "confidence", 0) > HighConfidence
    /\ response_plans[2] = <<"block_access", "log_incident">>

\* C9: whatever the type, a confidence in (0.7, 0.9] gets exactly
\* [increase_monitoring] and a confidence of 0.7 or less, or none, gets no action.
C9_LowerTiers ==
    Planned =>
        \A i \in 1..Len(filtered_alerts) :
            LET confidence == Get(filtered_alerts[i], "confidence", 0)
            IN  /\ (confidence > MediumConfidence /\ confidence <= HighConfidence)
                      => response_plans[i] = <<"increase_monitoring">>
                /\ confidence <= MediumConfidence => response_plans[i] = <<>>

\* an alert at exactly 0.9 got [increase_monitoring], and one without a confidence
\* got nothing
C9_Witness ==
    /\ Planned
    /\ Get(filtered_alerts[1], "confidence", 0) = HighConfidence
    /\ response_plans[1] = <<"increase_monitoring">>
    /\ "confidence" \notin DOMAIN filtered_alerts[2]
    /\ response_plans[2] = <<>>

\* C10: planning changes no coordinator state, and two alerts that agree on type
\* and confidence get the same plan, whatever their other fields and whatever the
\* store holds.
C10_PlannerDeterminism ==
    [][(phase = "respond" /\ phase' = "responded") =>
        /\ UNCHANGED <<alerts, defense_history, coordination_config>>
        /\ \A i, j \in 1..Len(filtered_alerts) :
              (/\ filtered_alerts[i].type = filtered_alerts[j].type
               /\ Get(filtered_alerts[i], "confidence", 0)
                     = Get(filtered_alerts[j], "confidence", 0))
              => response_plans'[i] = response_plans'[j]]_vars

\* two alerts of the same type and confidence but of different origins were
\* planned alike, with earlier alerts in the store
C10_Witness ==
    /\ Planned
    /\ alerts # <<>>
    /\ filtered_alerts[1].type = filtered_alerts[2].type
    /\ Get(filtered_alerts[1], "confidence", 0) > HighConfidence
    /\ Get(filtered_alerts[1], "confidence", 0) = Get(filtered_alerts[2], "confidence", 0)
    /\ filtered_alerts[1].system # filtered_alerts[2].system
    /\ response_plans[1] = response_plans[2]
    /\ response_plans[1] # <<>>

----------------------------------------------------------------------------
(* Failure isolation *)

\* the record of the cycle that has just run
LastCycle == defense_history[Len(defense_history)]

\* the alert query of system s raised in the cycle that has just run
QueryRaised(s) ==
    \E k \in 1..Len(error_log) : error_log[k].what = "get_alerts" /\ error_log[k].system = s

FailedCalls ==
    Cardinality({k \in 1..Len(error_log) : error_log[k].what = "execute_response_action"})

RECURSIVE SumLen(_)
SumLen(plans) == IF plans = <<>> THEN 0 ELSE Len(Head(plans)) + SumLen(Tail(plans))

\* action a was executed for the alert, or its execution was tried and failed
Tried(a, alert) ==
    \/ \E k \in 1..Len(response_log) :
          response_log[k].action = a /\ response_log[k].alert_id = alert.id
    \/ \E k \in 1..Len(error_log) :
          /\ error_log[k].what = "execute_response_action"
          /\ error_log[k].action = a
          /\ error_log[k].alert_id = alert.id

\* C12: when response actions fail, the cycle still completes (the count of
\* admitted alerts is recorded), every action of every plan of the cycle is tried
\* exactly once, the ones after a failed action included, and each action that
\* does not fail is executed.
C12_ActionIsolation ==
    (phase = "sleep" /\ defense_history # <<>> /\ response_plans # <<>>) =>
        /\ LastCycle.alerts_generated = Len(filtered_alerts)
        /\ Len(response_log) + FailedCalls = SumLen(response_plans)
        /\ \A i \in 1..Len(response_plans) : \A j \in 1..Len(response_plans[i]) :
              Tried(response_plans[i][j], filtered_alerts[i])

\* increase_monitoring failed for the first alert of the cycle and block_access
\* for the second: the second alert's plan was executed all the same, and
\* log_incident was executed after block_access had failed
C12_Witness ==
    /\ phase = "sleep"
    /\ Len(filtered_alerts) = 2
    /\ response_plans = << <<"isolate_resource", "increase_monitoring">>,
                           <<"block_access", "log_incident">> >>
    /\ Len(error_log) = 2
    /\ error_log[1].what = "execute_response_action"
    /\ error_log[1].action = "increase_monitoring"
    /\ error_log[2].what = "execute_response_action"
    /\ error_log[2].action = "block_access"
    /\ Len(response_log) = 2
    /\ response_log[1].action = "isolate_resource"
    /\ response_log[2].action = "log_incident"

----------------------------------------------------------------------------
(* The API *)

\* the step serves a request `op`: the requests are the steps that leave the
\* monitoring loop where it is
IsCall(op) ==
    /\ api_call'.op = op
    /\ UNCHANGED <<phase, defense_active, loop_tasks, now>>

\* the positions of the stored alerts with the id the request names
Named == {i \in 1..Len(alerts) : alerts[i].id = api_call'.alert_id}

\* C13: manual_response with an id no stored alert has returns a failure
\* (executed = false), executes no action and leaves the Alert Store, the cycle
\* history and the configuration unchanged.
C13_ManualNotFound ==
    [][(IsCall("manual_response") /\ Named = {}) =>
        /\ api_call'.result = [error |-> "Alert not found", executed |-> FALSE]
        /\ response_log' = <<>>
        /\ error_log' = <<>>
        /\ UNCHANGED <<alerts, defense_history, coordination_config>>]_vars

\* a manual response that named an unknown id was turned down while the store
\* held alerts
C13_Witness ==
    /\ api_call.op = "manual_response"
    /\ api_call.alert_id = UnknownId
    /\ api_call.result.executed = FALSE
    /\ alerts # <<>>
    /\ response_log = <<>>

\* C14: manual_response with the id of a stored alert executes exactly one action
\* and appends exactly one outcome record for it to that alert's responses,
\* whatever the alert's confidence and the auto_response setting.
C14_ManualAppends ==
    [][(IsCall("manual_response") /\ Named # {}) =>
        /\ Len(response_log') + Len(error_log') = 1
        /\ \E i \in Named :
              /\ i <= Len(alerts')
              /\ Len(Get(alerts'[i], "responses", <<>>))
                    = Len(Get(alerts[i], "responses", <<>>)) + 1]_vars

\* C19 as claimed: get_alert_history(hours) returns exactly the stored alerts
\* admitted within the last `hours` hours, in store order, whatever their
\* occurred_at.
C19_HistoryByAdmission ==
    [][IsCall("get_alert_history") =>
        api_call'.result =
            SelectSeq(alerts, LAMBDA a :
                a.coordinated_at > now - api_call'.hours * MinutesPerHour)]_vars

\* C19, amended: get_alert_history(hours) returns exactly the stored alerts whose
\* timestamp (the finding's occurred_at) is less than `hours` hours old, in store
\* order, whenever they were admitted.
C19_HistoryByTimestamp ==
    [][IsCall("get_alert_history") =>
        api_call'.result =
            SelectSeq(alerts, LAMBDA a :
                a.timestamp > now - api_call'.hours * MinutesPerHour)]_vars

\* a query for the last hour left out an alert admitted within the hour but
\* detected an hour ago, and returned another
C19_Witness ==
    /\ api_call.op = "get_alert_history"
    /\ api_call.hours = 1
    /\ api_call.result # <<>>
    /\ \E i \in 1..Len(alerts) :
          /\ alerts[i].coordinated_at > now - MinutesPerHour
          /\ alerts[i].timestamp <= now - MinutesPerHour
          /\ \A k \in 1..Len(api_call.result) : api_call.result[k] # alerts[i]
    /\ \A k \in 1..Len(api_call.result) :
          \E i \in 1..Len(alerts) : alerts[i] = api_call.result[k]

\* C20: get_defense_status and get_alert_history leave the Alert Store, the cycle
\* history and the configuration as they were, between cycles and during one.
C20_ReadsChangeNothing ==
    [][(IsCall("get_defense_status") \/ IsCall("get_alert_history")) =>
        UNCHANGED <<alerts, defense_history, coordination_config>>]_vars

\* during a cycle (the cycle record written, the alerts not yet processed) a
\* history query returned fewer alerts than the store holds, and the store kept
\* them
C20_Witness ==
    /\ phase = "process"
    /\ api_call.op = "get_alert_history"
    /\ Len(api_call.result) < Len(alerts)
    /\ defense_history # <<>>

----------------------------------------------------------------------------
(* The configuration *)

\* the keys of the configuration
RecognizedKeys == {"monitoring_interval", "alert_threshold", "auto_response", "max_alerts_per_hour"}

\* C15: update_configuration gives every recognized key of the patch the patch's
\* value, keeps every other key's value, ignores the unrecognized keys without an
\* error and never adds them, so that the keys of the configuration stay the same
\* four; the Alert Store and the cycle history are unchanged.
C15_UpdateConfiguration ==
    [][IsCall("update_configuration") =>
        LET patch == api_call'.config_updates
        IN  /\ DOMAIN coordination_config = RecognizedKeys
            /\ DOMAIN coordination_config' = RecognizedKeys
            /\ \A key \in RecognizedKeys :
                  coordination_config'[key] =
                      IF key \in DOMAIN patch THEN patch[key] ELSE coordination_config[key]
            /\ api_call'.result.updated
            /\ UNCHANGED <<alerts, defense_history>>]_vars

\* with alerts in the store and auto_response turned off by an earlier update, an
\* update carrying a recognized and an unrecognized key was applied
C15_Witness ==
    /\ api_call.op = "update_configuration"
    /\ DOMAIN api_call.config_updates = {"alert_threshold", "debug"}
    /\ coordination_config.alert_threshold = api_call.config_updates.alert_threshold
    /\ coordination_config.auto_response = FALSE
    /\ "debug" \notin DOMAIN coordination_config
    /\ alerts # <<>>
    /\ defense_history # <<>>

\* C17: in the automatic cycle only alerts whose confidence is strictly greater
\* than the alert_threshold configured when the cycle runs are collected, planned
\* and answered; no action is executed for an alert at or below the threshold.
C17_ThresholdGating ==
    [][IsProcessStep =>
        /\ \A i \in 1..Len(new_alerts') :
              Get(new_alerts'[i], "confidence", 0) > coordination_config.alert_threshold
        /\ \A i \in 1..Len(filtered_alerts') :
              Get(filtered_alerts'[i], "confidence", 0) > coordination_config.alert_threshold
        /\ Len(response_plans') \in {0, Len(filtered_alerts')}
        /\ \A k \in 1..Len(response_log') :
              \E i \in 1..Len(filtered_alerts') :
                  /\ filtered_alerts'[i].id = response_log'[k].alert_id
                  /\ Get(filtered_alerts'[i], "confidence", 0)
                        > coordination_config.alert_threshold]_vars

\* with the threshold raised to 0.8, a cycle was handed two findings: only the
\* one of confidence 0.95 was collected, and every action executed was for it
C17_Witness ==
    /\ phase = "sleep"
    /\ coordination_config.alert_threshold = 80
    /\ defense_history[1].alerts_generated = 1
    /\ delivered = 2
    /\ Len(new_alerts) = 1
    /\ new_alerts[1].confidence = 95
    /\ response_log # <<>>
    /\ \A k \in 1..Len(response_log) : response_log[k].alert_id = new_alerts[1].id

\* C18: a finding without a confidence is never admitted to the Alert Store,
\* whatever configuration update_configuration has set.
C18_NoConfidenceNeverAdmitted ==
    \A i \in 1..Len(alerts) : "confidence" \in DOMAIN alerts[i]

----------------------------------------------------------------------------
(* The loops *)

\* the tasks that have a cycle in flight: the cycle record is written and the
\* alerts are not yet processed
InFlight == {i \in 1..Len(loop_tasks) : loop_tasks[i] = "process"}

\* C16: at most one cycle execution is in flight at any time, for every
\* interleaving of activate-defense requests, shutdown and the background loops.
C16_OneCycleInFlight == Cardinality(InFlight) <= 1

----------------------------------------------------------------------------
(* The planner, across the tiers *)

\* C30: whatever the type, an alert of confidence above 0.7 gets a plan that is
\* not empty: above 0.9, a type that names none of anomaly, threat and
\* performance still gets increase_monitoring at least.
C30_PlanNeverWeaker ==
    Planned =>
        \A i \in 1..Len(filtered_alerts) :
            Get(filtered_alerts[i], "confidence", 0) > MediumConfidence
            => /\ response_plans[i] # <<>>
               /\ (Get(filtered_alerts[i], "confidence", 0) > HighConfidence
                    /\ AnomalyRow(filtered_alerts[i]) = <<>>
                    /\ ThreatRow(filtered_alerts[i]) = <<>>
                    /\ PerformanceRow(filtered_alerts[i]) = <<>>)
                  => \E j \in 1..Len(response_plans[i]) :
                        response_plans[i][j] = "increase_monitoring"

----------------------------------------------------------------------------
(* Shutdown *)

\* an alert with every field the coordinator and the detector give it
FullyFormed(a) ==
    {"id", "type", "confidence", "timestamp", "system", "coordinated_at"} \subseteq DOMAIN a

\* every task of the loop has left the while
AllDone == \A i \in 1..Len(loop_tasks) : loop_tasks[i] = "done"

\* the position after p in a turn of the loop
NextPosition(p) ==
    CASE p = "monitor" -> "process"
      [] p = "process" -> "sleep"
      [] p = "sleep" -> "check"
      [] OTHER -> p

\* C21: once shutdown has cleared the flag and defense is not activated again, a
\* cycle in flight runs on to its end (its task only moves forward through the
\* turn), no task enters a further cycle, every task eventually leaves the loop,
\* and the store holds fully formed alerts only.
C21_Shutdown ==
    /\ [](\A k \in 1..Len(alerts) : FullyFormed(alerts[k]))
    /\ [][\A i \in 1..Len(loop_tasks) :
            /\ (loop_tasks[i] = "check" /\ loop_tasks'[i] = "monitor") => defense_active
            /\ loop_tasks[i] \in {"monitor", "process", "sleep"}
               => loop_tasks'[i] \in {loop_tasks[i], NextPosition(loop_tasks[i])}]_vars
    /\ (~ defense_active) ~> (AllDone \/ defense_active)

\* shutdown came while a cycle was in flight; the cycle admitted its alert and
\* the task has left the loop
C21_Witness ==
    /\ ~ defense_active
    /\ loop_tasks = <<"done">>
    /\ cycles = 1
    /\ defense_history[1].alerts_generated = 1
    /\ Len(alerts) = 1

----------------------------------------------------------------------------
(* Intake *)

\* C22: after a cycle with automatic response, every alert the cycle admitted is
\* in the store with status responded and a responses list that holds one record
\* per planned action, in plan order, each with the action's name, a timestamp
\* and the outcome executed or failed.
C22_ResponseRecording ==
    (phase = "sleep" /\ coordination_config.auto_response) =>
        \A i \in 1..Len(filtered_alerts) :
            \E k \in 1..Len(alerts) :
                /\ alerts[k].id = filtered_alerts[i].id
                /\ Get(alerts[k], "status", "detected") = "responded"
                /\ LET responses == Get(alerts[k], "responses", <<>>)
                   IN  /\ Len(responses) = Len(response_plans[i])
                       /\ \A j \in 1..Len(responses) :
                             /\ responses[j].action = response_plans[i][j]
                             /\ responses[j].timestamp = now
                             /\ responses[j].status \in {"executed", "failed"}

\* C23: admission does not depend on the threshold.  The first cycle starts from
\* the empty store, so the one finding it is handed (with a confidence, as every
\* finding of the intake) is neither a duplicate nor rate-limited: it is admitted
\* whatever its confidence, and gets responses only when above the threshold.
C23_AdmissionIgnoresThreshold ==
    (phase = "sleep" /\ cycles = 1 /\ delivered = 1) =>
        /\ Len(filtered_alerts) = 1
        /\ filtered_alerts[1].confidence <= coordination_config.alert_threshold
           => response_log = <<>>

\* C25: no two alerts of the store share an id.
C25_UniqueIds ==
    \A i, j \in 1..Len(alerts) : alerts[i].id = alerts[j].id => i = j

\* C28: with max_alerts_per_hour fixed before the first cycle, the number of
\* stored alerts whose timestamp lies within the trailing hour never exceeds it.
C28_HourlyCap ==
    StampedInLastHour(alerts, now) <= coordination_config.max_alerts_per_hour

\* C29: every automatic response of a cycle is for an alert that is in the store
\* when the response is executed, that is after the cycle's retention prune.
C29_RespondOnlyToStored ==
    phase = "sleep" =>
        \A j \in 1..Len(response_log) :
            \E k \in 1..Len(alerts) : alerts[k].id = response_log[j].alert_id

----------------------------------------------------------------------------
(* The cycle records *)

\* the sum of the alerts_generated of the records of h that were started at t
RECURSIVE CountsAt(_, _)
CountsAt(h, t) ==
    IF h = <<>> THEN 0
    ELSE (IF Head(h).timestamp = t THEN Head(h).alerts_generated ELSE 0) + CountsAt(Tail(h), t)

\* no task of the loop is inside a cycle
Quiescent == \A i \in 1..Len(loop_tasks) : loop_tasks[i] \notin {"monitor", "process"}

\* C24: once the cycles have completed, each cycle's own record holds the number
\* of alerts that cycle appended to the store, also when two loops are active.
\* Summed over the cycles started at the present moment: their records' counts
\* add up to the number of alerts admitted at that moment (none of which the
\* retention prune can have removed yet).
C24_CycleRecordCount ==
    (Quiescent /\ Len(defense_history) < HistoryCap) =>
        CountsAt(defense_history, now)
            = Cardinality({k \in 1..Len(alerts) : alerts[k].coordinated_at = now})

----------------------------------------------------------------------------
(* The life of a stored alert *)

\* the alerts of the store that the retention prune of a cycle at the present
\* moment leaves in it
Retained == SelectSeq(alerts, LAMBDA a : a.timestamp > now - RetentionMinutes)

\* C26: a stored alert stays in the store, every field as it was (type,
\* confidence, timestamp, system, coordinated_at, and responses and status if
\* any), in the same place among the others, until the retention prune of a
\* cycle removes it: the prune removes exactly the alerts whose timestamp is 24
\* hours old, and no other operation removes or changes an alert.
C26_AlertLifecycle ==
    [][LET kept == IF IsProcessStep THEN Retained ELSE alerts
       IN  /\ Len(alerts') >= Len(kept)
           /\ SubSeq(alerts', 1, Len(kept)) = kept
           /\ ~ IsProcessStep => alerts' = alerts]_vars

\* two cycles have run and a manual response was executed: an alert admitted by
\* the first cycle is still first in the store, next to one of the second
C26_Witness ==
    /\ phase = "sleep"
    /\ cycles = 2
    /\ Len(alerts) = 2
    /\ alerts[1].coordinated_at < now
    /\ alerts[2].coordinated_at = now
    /\ api_call.op = "manual_response"
    /\ api_call.result.executed

----------------------------------------------------------------------------
(* The scheduler *)

\* C27: the monitoring loop stops on shutdown only.  Shutdown is never requested
\* in SpecMonitoring: after any detector errors, action errors and
\* update_configuration calls, whatever is stored under monitoring_interval, the
\* loop has not returned.
C27_SchedulerKeepsRunning == phase # "returned"

====
